---- MODULE Spec2Model ----
(***************************************************************************)
(* Model of the POST /v1/messages handler of src/proxy.js.                 *)
(*                                                                         *)
(* Spec is the streaming path: the upstream SSE byte stream is read chunk  *)
(* by chunk, re-framed on newlines, parsed, and translated into downstream *)
(* SSE events, while the downstream connection may close at any suspension *)
(* point of the handler.  NonStreamSpec is the non-streaming path: the     *)
(* request body is translated, the upstream JSON body is read and          *)
(* translated back.  ToolsSpec is the translation of a request that        *)
(* declares a tool, and PairSpec is two streaming requests served at once. *)
(*                                                                         *)
(* Text is a sequence of units.  A unit is a short piece of text that the  *)
(* model never splits: "da" and "ta:" are the two halves of the `data:`    *)
(* prefix, " " and "CR" are white space, "LF" is the newline, "{" and "}"  *)
(* delimit a JSON object and a member unit such as "c:a" is one member of  *)
(* it (here: choices[0].delta.content = "a").  Upstream reads may split    *)
(* the stream between any two units.                                       *)
(***************************************************************************)
EXTENDS Integers, Sequences, FiniteSets, TLC

VARIABLES
    payload,      \* request.body
    openaiPayload,\* the body of the upstream call, once built
    data,         \* the upstream JSON body of a non-streaming response, once read
    response,     \* the message returned by a non-streaming request
    reqs,         \* the handler invocations in progress when two requests are
                  \* served at once: for each its pc, st, lastRead, result
    pc,           \* position of the handler: "request" (not yet invoked), the
                  \* await it is suspended in ("fetch", "errorText", "json",
                  \* "reading"), or "returned"
    st,           \* the handler's locals and the state of reply.raw
    engine,       \* JSON.parse error wording of the runtime: "legacy" or "modern"
    lastRead,     \* how the latest read of the upstream body settled: "none",
                  \* "chunk", "done", "text" (openaiResponse.text()), "error"
    result        \* what the handler returned to the framework

vars == <<pc, st, engine, lastRead, result, payload, openaiPayload, data, response, reqs>>

(***************************************************************************)
(* Bounds                                                                  *)
(***************************************************************************)
\* The number of lines of an upstream body.
MaxLines == 3
\* The number of lines a single read can begin.
MaxNewLines == 1
\* The most messages of a non-streaming request body, and the most content
\* blocks of a message.
MaxMessages == 2
MaxBlocks == 2
\* The greatest nesting depth of a tool's input schema.
MaxDepth == 2
\* The number of lines of each upstream body when two requests are served at
\* once.
MaxPairLines == 1

(***************************************************************************)
(* Text helpers                                                            *)
(***************************************************************************)
Min(a, b) == IF a <= b THEN a ELSE b

IsSpace(u) == u \in {" ", "CR"}

RECURSIVE split(_)
\* String.prototype.split('\n')
split(s) ==
    IF \A i \in 1..Len(s) : s[i] # "LF"
    THEN <<s>>
    ELSE LET i == CHOOSE k \in 1..Len(s) :
                      s[k] = "LF" /\ \A j \in 1..(k - 1) : s[j] # "LF"
         IN  <<SubSeq(s, 1, i - 1)>> \o split(SubSeq(s, i + 1, Len(s)))

RECURSIVE trimStart(_)
trimStart(s) ==
    IF s # <<>> /\ IsSpace(Head(s)) THEN trimStart(Tail(s)) ELSE s

RECURSIVE trimEnd(_)
trimEnd(s) ==
    IF s # <<>> /\ IsSpace(s[Len(s)]) THEN trimEnd(SubSeq(s, 1, Len(s) - 1)) ELSE s

\* String.prototype.trim()
trim(s) == trimEnd(trimStart(s))

\* trimmed.startsWith('data:')
startsWithData(s) == Len(s) >= 2 /\ s[1] = "da" /\ s[2] = "ta:"

\* trimmed.replace(/^data:\s*/, '')
stripData(s) ==
    IF startsWithData(s) THEN trimStart(SubSeq(s, 3, Len(s))) ELSE s

(***************************************************************************)
(* Upstream frames.  A member unit stands for one member of the JSON       *)
(* object of a chat-completion chunk: "c:a" is delta.content "a", "r:x"    *)
(* is delta.reasoning "x", "t0:ab" is a delta.tool_calls entry with index  *)
(* 0 and function.arguments "ab", "u" is a usage object and "err" an error *)
(* object with message "boom".                                             *)
(***************************************************************************)
ToolUnits == {"t0:a", "t0:ab", "t1:a"}

MemberUnits == {"c:a", "c:b", "r:x", "u", "err"} \cup ToolUnits

toolCallOf(u) ==
    CASE u = "t0:a"  -> [index |-> 0, arguments |-> <<"a">>]
      [] u = "t0:ab" -> [index |-> 0, arguments |-> <<"a", "b">>]
      [] u = "t1:a"  -> [index |-> 1, arguments |-> <<"a">>]

\* The object JSON.parse builds from the members between "{" and "}".
\* A repeated scalar member keeps its last value; tool-call members are the
\* entries of the delta.tool_calls array, in order.
RECURSIVE objectOf(_)
objectOf(ms) ==
    IF ms = <<>>
    THEN [error |-> "", usage |-> FALSE, content |-> <<>>, reasoning |-> <<>>,
          tool_calls |-> <<>>]
    ELSE LET o == objectOf(SubSeq(ms, 1, Len(ms) - 1))
             u == ms[Len(ms)]
         IN  CASE u = "c:a" -> [o EXCEPT !.content = <<"a">>]
               [] u = "c:b" -> [o EXCEPT !.content = <<"b">>]
               [] u = "r:x" -> [o EXCEPT !.reasoning = <<"x">>]
               [] u = "u"   -> [o EXCEPT !.usage = TRUE]
               [] u = "err" -> [o EXCEPT !.error = "boom"]
               [] OTHER     -> [o EXCEPT !.tool_calls = Append(@, toolCallOf(u))]

\* The text is "{" member* "}".
wellFormed(p) ==
    /\ Len(p) >= 2
    /\ p[1] = "{"
    /\ p[Len(p)] = "}"
    /\ \A i \in 2..(Len(p) - 1) : p[i] \in MemberUnits

\* The text is a proper prefix of a well-formed one: the input ends early.
truncated(p) ==
    \/ p = <<>>
    \/ /\ p[1] = "{"
       /\ \A i \in 2..Len(p) : p[i] \in MemberUnits

\* Whether the message of a thrown error makes the catch block keep the
\* data string in incompleteDataLine (the three `includes` tests).  A text
\* that ends early gives "Unexpected end of JSON input" or "Unterminated
\* string ..." on every runtime.  A text that goes wrong before its end gives
\* "Unexpected token ..." on a legacy runtime and, on a modern one, wordings
\* such as "Expected ',' or '}' after property value" or "Unexpected
\* non-whitespace character after JSON" that match none of the tests; the
\* modern runtime keeps "Unexpected token" for a text whose first character
\* starts no JSON value.
looksIncomplete(msg) ==
    msg \in {"Unexpected end of JSON input", "Unexpected token"}

parseErrorMessage(p, eng) ==
    IF truncated(p) THEN "Unexpected end of JSON input"
    ELSE IF eng = "legacy" THEN "Unexpected token"
    ELSE IF p[1] \in {"}", "[DONE]", "da", "ta:"} THEN "Unexpected token"
    ELSE "Expected ',' or '}' after property value"

\* JSON.parse(dataStr): the object, or the message of the SyntaxError.
JSONparse(p, eng) ==
    IF wellFormed(p)
    THEN [ok |-> TRUE, value |-> objectOf(SubSeq(p, 2, Len(p) - 1)), message |-> ""]
    ELSE [ok |-> FALSE, value |-> objectOf(<<>>), message |-> parseErrorMessage(p, eng)]

(***************************************************************************)
(* The handler's state.  st holds the locals of one request (lines 65-66,  *)
(* 264-265 and 309-319 of proxy.js) and what the handler has done to       *)
(* reply.raw: the events written, the writeHead and end calls, and the     *)
(* writableEnded and destroyed flags that sendSSE reads.  chunkLog is the   *)
(* text of the chunks logged by debug('OpenAI response chunk:', chunk) and *)
(* parsedLog the objects JSON.parse returned, both kept as a history.      *)
(***************************************************************************)
InitState ==
    [ hasStartedStreaming  |-> FALSE,
      connectionClosed     |-> FALSE,
      isSucceeded          |-> FALSE,
      isStreamingStarted   |-> FALSE,
      accumulatedContent   |-> <<>>,
      accumulatedReasoning |-> <<>>,
      usage                |-> FALSE,
      textBlockStarted     |-> FALSE,
      encounteredToolCall  |-> FALSE,
      toolCallAccumulators |-> <<>>,
      done                 |-> FALSE,
      buffer               |-> <<>>,
      incompleteDataLine   |-> <<>>,
      returned             |-> FALSE,
      events               |-> <<>>,
      writeHeadCalls       |-> 0,
      endCalls             |-> 0,
      writableEnded        |-> FALSE,
      destroyed            |-> FALSE,
      chunkLog             |-> <<>>,
      parsedLog            |-> <<>>,
      fetchCalls           |-> 0,
      upstreamStatus       |-> 0,
      upstreamBody         |-> "",
      replyCode            |-> 0,
      replyBody            |-> "" ]

\* An SSE event: its name, and the index, the delta type (or stop reason),
\* the text and the output token count of its data.
Event(type, index, kind, text) ==
    [type |-> type, index |-> index, kind |-> kind, text |-> text, tokens |-> 0]

\* usage.completion_tokens of the usage object the "u" member stands for.
completionTokens(usage) == IF usage THEN 7 ELSE 0

\* reply.sent: the response has been ended.
replySent(s) == s.writableEnded

\* sendSSE(reply, event, data)
sendSSE(s, ev) ==
    IF s.destroyed \/ s.writableEnded
    THEN s
    ELSE [s EXCEPT !.events = Append(@, ev)]

\* reply.raw.end() inside try/catch
rawEnd(s) ==
    [s EXCEPT !.endCalls = @ + 1, !.writableEnded = TRUE]

\* sendSuccessMessage with the three flags left unset.
sendSuccessMessageNoFlags(s, headThrows) ==
    IF s.isSucceeded \/ replySent(s) \/ s.connectionClosed \/ s.hasStartedStreaming
    THEN s
    ELSE LET s1 == [s EXCEPT !.writeHeadCalls = @ + 1]
         IN  IF headThrows
             THEN [s1 EXCEPT !.connectionClosed = TRUE]
             ELSE sendSSE(sendSSE(s1, Event("message_start", 0, "", <<>>)),
                          Event("ping", 0, "", <<>>))

\* sendSuccessMessage(); headThrows says whether reply.raw.writeHead throws.
sendSuccessMessage(s, headThrows) ==
    IF s.isSucceeded \/ replySent(s) \/ s.connectionClosed \/ s.hasStartedStreaming
    THEN s
    ELSE LET s1 == [s EXCEPT !.isSucceeded = TRUE,
                             !.isStreamingStarted = TRUE,
                             !.hasStartedStreaming = TRUE,
                             !.writeHeadCalls = @ + 1]
         IN  IF headThrows
             THEN [s1 EXCEPT !.connectionClosed = TRUE]
             ELSE sendSSE(sendSSE(s1, Event("message_start", 0, "", <<>>)),
                          Event("ping", 0, "", <<>>))

\* String.prototype.split(' ').length
wordCount(text) == Cardinality({i \in 1..Len(text) : text[i] = " "}) + 1

\* The keys of toolCallAccumulators in the order of `for (const idx in ...)`:
\* integer keys ascending.
RECURSIVE keysInOrder(_)
keysInOrder(S) ==
    IF S = {} THEN <<>>
    ELSE LET m == CHOOSE x \in S : \A y \in S : x <= y
         IN  <<m>> \o keysInOrder(S \ {m})

RECURSIVE stopToolBlocks(_, _)
stopToolBlocks(s, keys) ==
    IF keys = <<>> \/ s.connectionClosed
    THEN s
    ELSE stopToolBlocks(sendSSE(s, Event("content_block_stop", Head(keys), "", <<>>)),
                        Tail(keys))

\* finalizeStream closing the index-0 text block whatever was opened.
finalizeStreamTextStop(s) ==
    LET s0 == IF s.encounteredToolCall
              THEN stopToolBlocks(s, keysInOrder(DOMAIN s.toolCallAccumulators))
              ELSE s
        s1 == IF ~s0.connectionClosed
              THEN sendSSE(s0, Event("content_block_stop", 0, "", <<>>))
              ELSE s0
        s2 == IF ~s1.connectionClosed
              THEN rawEnd(
                     sendSSE(
                       sendSSE(s1, Event("message_delta", 0,
                                         IF s1.encounteredToolCall THEN "tool_use"
                                                                   ELSE "end_turn",
                                         <<>>)),
                       Event("message_stop", 0, "", <<>>)))
              ELSE s1
    IN  [s2 EXCEPT !.returned = TRUE]

\* The `[DONE]` branch (lines 348-385), up to its return.
finalizeStream(s) ==
    LET s1 == IF s.encounteredToolCall
              THEN stopToolBlocks(s, keysInOrder(DOMAIN s.toolCallAccumulators))
              ELSE IF s.textBlockStarted /\ ~s.connectionClosed
                   THEN sendSSE(s, Event("content_block_stop", 0, "", <<>>))
                   ELSE s
        tokens == IF s1.usage
                  THEN completionTokens(s1.usage)
                  ELSE wordCount(s1.accumulatedContent)
                         + wordCount(s1.accumulatedReasoning)
        s2 == IF ~s1.connectionClosed
              THEN rawEnd(
                     sendSSE(
                       sendSSE(s1, [Event("message_delta", 0,
                                          IF s1.encounteredToolCall THEN "tool_use"
                                                                    ELSE "end_turn",
                                          <<>>) EXCEPT !.tokens = tokens]),
                       Event("message_stop", 0, "", <<>>)))
              ELSE s1
    IN  [s2 EXCEPT !.returned = TRUE]

(***************************************************************************)
(* One parsed frame (lines 389-490).  The throw of line 392 leaves its     *)
(* message in `thrown`; the catch block of line 478 then decides.          *)
(***************************************************************************)
\* toolCallStep with the whole cumulative string emitted instead of the
\* suffix beyond what is stored.
toolCallStepResend(s, toolCall) ==
    LET idx == toolCall.index
        s1  == [s EXCEPT !.encounteredToolCall = TRUE]
        s2  == IF idx \notin DOMAIN s1.toolCallAccumulators
               THEN sendSSE([s1 EXCEPT !.toolCallAccumulators = (idx :> <<>>) @@ @],
                            Event("content_block_start", idx, "tool_use", <<>>))
               ELSE s1
        newArgs == toolCall.arguments
        oldArgs == s2.toolCallAccumulators[idx]
    IN  IF Len(newArgs) > Len(oldArgs)
        THEN [sendSSE(s2, Event("content_block_delta", idx, "input_json_delta", newArgs))
                EXCEPT !.toolCallAccumulators[idx] = newArgs]
        ELSE s2

\* The tool call is processed without setting encounteredToolCall.
toolCallStepUnmarked(s, toolCall) ==
    LET idx == toolCall.index
        s2  == IF idx \notin DOMAIN s.toolCallAccumulators
               THEN sendSSE([s EXCEPT !.toolCallAccumulators = (idx :> <<>>) @@ @],
                            Event("content_block_start", idx, "tool_use", <<>>))
               ELSE s
        newArgs == toolCall.arguments
        oldArgs == s2.toolCallAccumulators[idx]
    IN  IF Len(newArgs) > Len(oldArgs)
        THEN [sendSSE(s2, Event("content_block_delta", idx, "input_json_delta",
                                SubSeq(newArgs, Len(oldArgs) + 1, Len(newArgs))))
                EXCEPT !.toolCallAccumulators[idx] = newArgs]
        ELSE s2

\* The accumulator takes every value received, longer or not.
toolCallStepOverwrite(s, toolCall) ==
    LET idx == toolCall.index
        s1  == [s EXCEPT !.encounteredToolCall = TRUE]
        s2  == IF idx \notin DOMAIN s1.toolCallAccumulators
               THEN sendSSE([s1 EXCEPT !.toolCallAccumulators = (idx :> <<>>) @@ @],
                            Event("content_block_start", idx, "tool_use", <<>>))
               ELSE s1
        newArgs == toolCall.arguments
        oldArgs == s2.toolCallAccumulators[idx]
    IN  IF Len(newArgs) > Len(oldArgs)
        THEN [sendSSE(s2, Event("content_block_delta", idx, "input_json_delta",
                                SubSeq(newArgs, Len(oldArgs) + 1, Len(newArgs))))
                EXCEPT !.toolCallAccumulators[idx] = newArgs]
        ELSE [s2 EXCEPT !.toolCallAccumulators[idx] = newArgs]

\* One entry of delta.tool_calls (lines 404-433).
toolCallStep(s, toolCall) ==
    LET idx == toolCall.index
        s1  == [s EXCEPT !.encounteredToolCall = TRUE]
        s2  == IF idx \notin DOMAIN s1.toolCallAccumulators
               THEN sendSSE([s1 EXCEPT !.toolCallAccumulators = (idx :> <<>>) @@ @],
                            Event("content_block_start", idx, "tool_use", <<>>))
               ELSE s1
        newArgs == toolCall.arguments
        oldArgs == s2.toolCallAccumulators[idx]
    IN  IF Len(newArgs) > Len(oldArgs)
        THEN [sendSSE(s2, Event("content_block_delta", idx, "input_json_delta",
                                SubSeq(newArgs, Len(oldArgs) + 1, Len(newArgs))))
                EXCEPT !.toolCallAccumulators[idx] = newArgs]
        ELSE s2

\* for (const toolCall of delta.tool_calls)
RECURSIVE toolCallsLoop(_, _)
toolCallsLoop(s, toolCalls) ==
    IF toolCalls = <<>> \/ s.connectionClosed
    THEN s
    ELSE toolCallsLoop(toolCallStep(s, Head(toolCalls)), Tail(toolCalls))

\* Lazily open the text block (lines 436-446 and 457-467).
openTextBlock(s) ==
    IF ~s.textBlockStarted
    THEN sendSSE([s EXCEPT !.textBlockStarted = TRUE],
                 Event("content_block_start", 0, "text", <<>>))
    ELSE s

\* The if / else-if chain over the delta (lines 402-477).
dispatchDelta(s, parsed) ==
    IF parsed.tool_calls # <<>> /\ ~s.connectionClosed
    THEN toolCallsLoop(s, parsed.tool_calls)
    ELSE IF parsed.content # <<>> /\ ~s.connectionClosed
    THEN sendSSE([openTextBlock(s) EXCEPT !.accumulatedContent = @ \o parsed.content],
                 Event("content_block_delta", 0, "text_delta", parsed.content))
    ELSE IF parsed.reasoning # <<>> /\ ~s.connectionClosed
    THEN sendSSE([openTextBlock(s) EXCEPT !.accumulatedReasoning = @ \o parsed.reasoning],
                 Event("content_block_delta", 0, "thinking_delta", parsed.reasoning))
    ELSE s

\* The body of the try block after JSON.parse succeeded (lines 391-477).
handleParsed(s, parsed, headThrows) ==
    IF parsed.error # ""
    THEN [state |-> s, thrown |-> parsed.error]
    ELSE LET s1 == IF ~s.isStreamingStarted /\ ~s.connectionClosed
                   THEN sendSuccessMessage(s, headThrows)
                   ELSE s
             s2 == IF parsed.usage THEN [s1 EXCEPT !.usage = TRUE] ELSE s1
         IN  [state |-> dispatchDelta(s2, parsed), thrown |-> ""]

\* catchParseError leaving the handler (a `return` in place of `continue`).
catchParseErrorFatal(s, dataStr, message) ==
    IF looksIncomplete(message)
    THEN [s EXCEPT !.incompleteDataLine = dataStr]
    ELSE [s EXCEPT !.returned = TRUE]

\* catch (parseError) (lines 478-490)
catchParseError(s, dataStr, message) ==
    IF looksIncomplete(message)
    THEN [s EXCEPT !.incompleteDataLine = dataStr]
    ELSE s

\* try { JSON.parse ... } catch (parseError) { ... } for one data string
\* (lines 389-490).
handleData(s, dataStr, headThrows, eng) ==
    LET p == JSONparse(dataStr, eng)
    IN  IF ~p.ok
        THEN catchParseError(s, dataStr, p.message)
        ELSE LET r == handleParsed([s EXCEPT !.parsedLog = Append(@, p.value)],
                                   p.value, headThrows)
             IN  IF r.thrown # ""
                 THEN catchParseError(r.state, dataStr, r.thrown)
                 ELSE r.state

\* One iteration of `for (const line of lines)` (lines 337-490) for a
\* loop that has not been left.
lineStep(s, line, headThrows, eng) ==
    LET trimmed == trim(line)
    IN  IF trimmed = <<>> \/ ~startsWithData(trimmed)
        THEN s
        ELSE LET dataStr == s.incompleteDataLine \o stripData(trimmed)
                 s1 == [s EXCEPT !.incompleteDataLine = <<>>]
             IN  IF dataStr = <<"[DONE]">>
                 THEN finalizeStream(s1)
                 ELSE IF s1.connectionClosed
                 THEN s1
                 ELSE handleData(s1, dataStr, headThrows, eng)

\* for (const line of lines): left by the `return` of the [DONE] branch and
\* by the `break` on connectionClosed.
RECURSIVE linesLoop(_, _, _, _)
linesLoop(s, lines, headThrows, eng) ==
    IF lines = <<>> \/ s.returned \/ s.connectionClosed
    THEN s
    ELSE linesLoop(lineStep(s, Head(lines), headThrows, eng), Tail(lines), headThrows, eng)

\* processChunk with the carry-over buffer dropped between reads.
processChunkNoCarry(s, chunk, headThrows, eng) ==
    IF chunk # <<>> /\ ~s.connectionClosed
    THEN LET lines == split(chunk)
         IN  linesLoop([s EXCEPT !.buffer = lines[Len(lines)],
                                 !.chunkLog = @ \o chunk],
                       SubSeq(lines, 1, Len(lines) - 1), headThrows, eng)
    ELSE s

\* The body of the read loop for one chunk (lines 324-492).
processChunk(s, chunk, headThrows, eng) ==
    IF chunk # <<>> /\ ~s.connectionClosed
    THEN LET lines == split(s.buffer \o chunk)
         IN  linesLoop([s EXCEPT !.buffer = lines[Len(lines)],
                                 !.chunkLog = @ \o chunk],
                       SubSeq(lines, 1, Len(lines) - 1), headThrows, eng)
    ELSE s

(***************************************************************************)
(* The request handler around the read loop                                *)
(***************************************************************************)
\* loopContinues without the connectionClosed test.
loopContinuesUntilDone(s) == ~s.done

\* while (!done && !connectionClosed)
loopContinues(s) == ~s.done /\ ~s.connectionClosed

\* afterLoop without the connectionClosed test.
afterLoopUnguarded(s) == rawEnd(s)

\* After the read loop (lines 495-501).
afterLoop(s) == IF ~s.connectionClosed THEN rawEnd(s) ELSE s

\* mayReplyError without the hasStartedStreaming test.
mayReplyErrorMidStream(s) == ~replySent(s) /\ ~s.connectionClosed

\* The guard of both error replies (lines 203 and 504).
mayReplyError(s) == ~replySent(s) /\ ~s.hasStartedStreaming /\ ~s.connectionClosed

\* reply.code(code); return { error: message }
errorReply(s, code, message) == [s EXCEPT !.replyCode = code, !.replyBody = message]

\* The non-2xx reply with the status of the catch block.
notOkReplyAs500(s, status, errorDetails) ==
    IF mayReplyError(s)
    THEN [state |-> errorReply(s, 500, errorDetails), result |-> "upstream status"]
    ELSE [state |-> s, result |-> "undefined"]

\* if (!openaiResponse.ok) { ... } after the body text was read (lines 203-207):
\* the state and what the handler returns.
notOkReply(s, status, errorDetails) ==
    IF mayReplyError(s)
    THEN [state |-> errorReply(s, status, errorDetails), result |-> "upstream status"]
    ELSE [state |-> s, result |-> "undefined"]

\* catch (err) { ... } (lines 502-508)
outerCatch(s, message) ==
    IF mayReplyError(s)
    THEN [state |-> errorReply(s, 500, message), result |-> "500"]
    ELSE [state |-> s, result |-> "undefined"]

(***************************************************************************)
(* Payload translation (lines 78-188).  A JavaScript string is a sequence  *)
(* of units; the values undefined and null are the one-unit sequences      *)
(* below, which no string contains.                                        *)
(***************************************************************************)
Undefined == <<"undefined">>

Null == <<"null">>

\* Truthiness of a string, undefined or null.
truthy(v) == v # <<>> /\ v # Undefined /\ v # Null

\* a || b
orElse(a, b) == IF truthy(a) THEN a ELSE b

RECURSIVE join(_)
\* Array.prototype.join(' '): undefined and null elements join as ''.
join(vs) ==
    IF vs = <<>> THEN <<>>
    ELSE LET last == vs[Len(vs)]
             text == IF last = Undefined \/ last = Null THEN <<>> ELSE last
         IN  IF Len(vs) = 1 THEN text
             ELSE join(SubSeq(vs, 1, Len(vs) - 1)) \o <<" ">> \o text

\* An inbound content block; a property it lacks is Undefined ("undefined"
\* for an id or a name).
TextBlock(text) ==
    [type |-> "text", text |-> text, content |-> Undefined, id |-> "undefined",
     name |-> "undefined", input |-> "undefined", tool_use_id |-> "undefined"]

ToolUseBlock(id, name, input) ==
    [type |-> "tool_use", text |-> Undefined, content |-> Undefined, id |-> id,
     name |-> name, input |-> input, tool_use_id |-> "undefined"]

ToolResultBlock(id, text, content) ==
    [type |-> "tool_result", text |-> text, content |-> content, id |-> "undefined",
     name |-> "undefined", input |-> "undefined", tool_use_id |-> id]

\* A message's content: a string or an array of blocks.
StringContent(text) == [kind |-> "string", string |-> text, items |-> <<>>]

ArrayContent(items) == [kind |-> "array", string |-> <<>>, items |-> items]

\* JSON.stringify of a tool input object, and JSON.parse of an argument
\* string: the object of a well-formed text, or a SyntaxError.
JSONstringify(input) == <<"{", input, "}">>

JSONparseArguments(text) ==
    IF Len(text) = 3 /\ text[1] = "{" /\ text[3] = "}"
    THEN [ok |-> TRUE, value |-> text[2]]
    ELSE [ok |-> FALSE, value |-> "undefined"]

\* normalizeContent (lines 83-89)
normalizeContent(content) ==
    IF content.kind = "string" THEN content.string
    ELSE IF content.kind = "array"
    THEN join([k \in 1..Len(content.items) |-> content.items[k].text])
    ELSE Null

\* payload.system.forEach(...) (lines 94-104)
systemMessages(system) ==
    LET normalized(sysMsg) ==
            LET v == orElse(sysMsg.text, sysMsg.content)
            IN  IF v = Undefined \/ v = Null THEN Null ELSE v
        pushed(sysMsg) == truthy(normalized(sysMsg))
        kept == SelectSeq(system, pushed)
    IN  [k \in 1..Len(kept) |->
           [role |-> "system", content |-> normalized(kept[k]),
            tool_calls |-> <<>>, tool_call_id |-> "undefined"]]

\* The outbound messages of one inbound message (lines 107-132): its own
\* entry, if it has content or tool calls, then one per tool_result block.
\* An entry without content has content Undefined, one without tool_calls
\* has the empty sequence.
translateMessage(msg) ==
    LET items       == IF msg.content.kind = "array" THEN msg.content.items ELSE <<>>
        isToolUse(item)    == item.type = "tool_use"
        isToolResult(item) == item.type = "tool_result"
        uses        == SelectSeq(items, isToolUse)
        toolCalls   == [k \in 1..Len(uses) |->
                          [id |-> uses[k].id, type |-> "function",
                           function |-> [name |-> uses[k].name,
                                         arguments |-> JSONstringify(uses[k].input)]]]
        normalized  == normalizeContent(msg.content)
        newMsg      == [role |-> msg.role,
                        content |-> IF truthy(normalized) THEN normalized ELSE Undefined,
                        tool_calls |-> toolCalls,
                        tool_call_id |-> "undefined"]
        toolResults == SelectSeq(items, isToolResult)
    IN  (IF truthy(newMsg.content) \/ toolCalls # <<>> THEN <<newMsg>> ELSE <<>>)
        \o [k \in 1..Len(toolResults) |->
              [role |-> "tool",
               content |-> orElse(toolResults[k].text, toolResults[k].content),
               tool_calls |-> <<>>,
               tool_call_id |-> toolResults[k].tool_use_id]]

RECURSIVE translateMessages(_)
\* payload.messages.forEach(...) (lines 106-133)
translateMessages(msgs) ==
    IF msgs = <<>> THEN <<>>
    ELSE translateMessages(SubSeq(msgs, 1, Len(msgs) - 1))
           \o translateMessage(msgs[Len(msgs)])

\* A JSON schema node: its type and format ("undefined" when absent) and
\* the schemas under properties (one per property), items,
\* additionalProperties (none or one) and anyOf (allOf and oneOf are
\* handled by the same branch as anyOf).
SchemaNode(type, format) ==
    [type |-> type, format |-> format, properties |-> <<>>, items |-> <<>>,
     additionalProperties |-> <<>>, anyOf |-> <<>>]

RECURSIVE removeUriFormat(_)
\* removeUriFormat (lines 137-170)
removeUriFormat(schema) ==
    IF schema.type = "string" /\ schema.format = "uri"
    THEN [schema EXCEPT !.format = "undefined"]
    ELSE LET each(children) == [k \in 1..Len(children) |-> removeUriFormat(children[k])]
         IN  [type                 |-> schema.type,
              format               |-> schema.format,
              properties           |-> each(schema.properties),
              items                |-> each(schema.items),
              additionalProperties |-> each(schema.additionalProperties),
              anyOf                |-> each(schema.anyOf)]

\* payload.tools filtered and mapped (lines 172-179)
translateTools(tools) ==
    LET kept(tool) == tool.name # "BatchTool"
        rest == SelectSeq(tools, kept)
    IN  [k \in 1..Len(rest) |->
           [type |-> "function",
            function |-> [name |-> rest[k].name,
                          parameters |-> removeUriFormat(rest[k].input_schema)]]]

\* The module's configuration, set once by start() (lines 47-56).
config == [models |-> [reasoning |-> "reasoning-model", completion |-> "completion-model"]]

\* openaiPayload (lines 180-187); an absent tools member is the empty
\* sequence.
buildPayload(body) ==
    [model    |-> IF body.thinking THEN config.models.reasoning ELSE config.models.completion,
     messages |-> systemMessages(body.system) \o translateMessages(body.messages),
     stream   |-> body.stream,
     tools    |-> translateTools(body.tools)]

\* The payload before the handler has built it.
NoPayload == [model |-> "undefined", messages |-> <<>>, stream |-> FALSE, tools |-> <<>>]

(***************************************************************************)
(* The non-streaming translator (lines 211-261)                            *)
(***************************************************************************)
\* mapStopReason (lines 36-43)
mapStopReason(finishReason) ==
    CASE finishReason = "tool_calls" -> "tool_use"
      [] finishReason = "stop"       -> "end_turn"
      [] finishReason = "length"     -> "max_tokens"
      [] OTHER                       -> "end_turn"

\* String.prototype.replace(a, b) on a sequence of units: the first
\* occurrence is replaced.
replace(s, a, b) ==
    IF \E k \in 1..Len(s) : s[k] = a
    THEN LET first == CHOOSE k \in 1..Len(s) :
                         s[k] = a /\ \A j \in 1..(k - 1) : s[j] # a
         IN  [s EXCEPT ![first] = b]
    ELSE s

\* An upstream usage object, or its absence.
NoUsage == [present |-> FALSE, prompt_tokens |-> 0, completion_tokens |-> 0]

\* The response before the handler has built one.
NoResponse ==
    [content |-> <<>>, id |-> <<>>, model |-> "undefined", role |-> "undefined",
     stop_reason |-> "undefined",
     usage |-> [input_tokens |-> 0, output_tokens |-> 0]]

\* The upstream JSON body before it has been read.
NoData ==
    [error |-> "", id |-> Undefined, usage |-> NoUsage, finish_reason |-> "undefined",
     message |-> [role |-> "undefined", content |-> Undefined, tool_calls |-> <<>>]]

RECURSIVE sum(_)
\* reduce((acc, n) => acc + n, 0)
sum(ns) == IF ns = <<>> THEN 0 ELSE Head(ns) + sum(Tail(ns))

\* x.split(' ') of a value that is undefined or null throws a TypeError.
splits(v) == v # Undefined /\ v # Null

\* Lines 214-260: the response built from the upstream body `d`, or the
\* exception thrown on the way.  `random` stands for the suffix drawn by
\* Math.random() for a body without an id.
translateResponse(d, messages, model, random) ==
    LET openaiMessage == d.message
        toolCalls     == openaiMessage.tool_calls
        parsedArgs    == [k \in 1..Len(toolCalls) |->
                            JSONparseArguments(toolCalls[k].function.arguments)]
        thrown(m)     == [thrown |-> TRUE, message |-> m, response |-> NoResponse]
    IN  IF d.error # ""
        THEN thrown(d.error)
        ELSE IF \E k \in 1..Len(toolCalls) : ~parsedArgs[k].ok
        THEN thrown("SyntaxError")
        ELSE IF ~d.usage.present /\ \E k \in 1..Len(messages) : ~splits(messages[k].content)
        THEN thrown("TypeError")
        ELSE IF ~d.usage.present /\ ~splits(openaiMessage.content)
        THEN thrown("TypeError")
        ELSE [thrown   |-> FALSE,
              message  |-> "",
              response |->
                [content |->
                    << [type |-> "text", text |-> openaiMessage.content,
                        id |-> "undefined", name |-> "undefined", input |-> "undefined"] >>
                    \o [k \in 1..Len(toolCalls) |->
                          [type |-> "tool_use", text |-> Undefined,
                           id |-> toolCalls[k].id,
                           name |-> toolCalls[k].function.name,
                           input |-> parsedArgs[k].value]],
                 id    |-> IF truthy(d.id) THEN replace(d.id, "chatcmpl", "msg")
                           ELSE <<"msg_", random>>,
                 model |-> model,
                 role  |-> openaiMessage.role,
                 stop_reason |-> mapStopReason(d.finish_reason),
                 usage |->
                   [input_tokens |->
                      IF d.usage.present THEN d.usage.prompt_tokens
                      ELSE LET words == [k \in 1..Len(messages) |-> wordCount(messages[k].content)]
                           IN  sum(words),
                    output_tokens |->
                      IF d.usage.present THEN d.usage.completion_tokens
                      ELSE wordCount(openaiMessage.content)]]]

(***************************************************************************)
(* Request bodies and upstream JSON bodies                                 *)
(***************************************************************************)
\* The body of the streaming requests.
StreamPayload ==
    [stream |-> TRUE, thinking |-> TRUE, system |-> <<>>, tools |-> <<>>,
     messages |-> << [role |-> "user", content |-> StringContent(<<"hi">>)] >>]

\* The role and the tool_use_id used at each position of payload.messages.
Roles == <<"user", "assistant", "developer">>

ToolIds == <<"t1", "t2", "t3">>

\* The text of a tool_result block; no other block has these words.
ResultWords == {"ok"}

\* The content blocks of the message at position j.
Blocks(j) ==
    { TextBlock(<<"hi">>),
      ToolUseBlock("call0", "search", "in0"),
      ToolResultBlock(ToolIds[j], <<"ok">>, Undefined),
      ToolResultBlock(ToolIds[j], Undefined, <<"ok">>) }

Contents(j) ==
    {StringContent(<<"hi">>)}
      \cup {ArrayContent(b) : b \in UNION {[1..n -> Blocks(j)] : n \in 1..MaxBlocks}}

RECURSIVE MessageListsOf(_)
MessageListsOf(n) ==
    IF n = 0 THEN {<<>>}
    ELSE {Append(l, [role |-> Roles[n], content |-> c]) :
            l \in MessageListsOf(n - 1), c \in Contents(n)}

Systems == {<<>>, << [text |-> <<"be", " ", "brief">>, content |-> Undefined] >>}

\* The bodies of the non-streaming requests with at most `most` messages.
NonStreamPayloads(most) ==
    {[stream |-> FALSE, thinking |-> FALSE, system |-> sys, tools |-> <<>>, messages |-> m] :
        sys \in Systems, m \in UNION {MessageListsOf(n) : n \in 0..most}}

RECURSIVE Schemas(_)
\* The schemas of depth at most d: a node of any type and format with at
\* most one child, under any of the four keys.
Schemas(d) ==
    LET leaves == {SchemaNode(t, f) : t \in {"string", "object"}, f \in {"uri", "undefined"}}
    IN  IF d = 0 THEN leaves
        ELSE Schemas(d - 1)
               \cup {[l EXCEPT ![key] = <<c>>] :
                       l \in leaves,
                       key \in {"properties", "items", "additionalProperties", "anyOf"},
                       c \in Schemas(d - 1)}

\* The bodies of the requests that declare one tool, with a schema of depth
\* at most d.
ToolPayloads(d) ==
    {[stream |-> FALSE, thinking |-> FALSE, system |-> <<>>, messages |-> <<>>,
      tools |-> << [name |-> n, input_schema |-> schema] >>] :
        n \in {"Read", "BatchTool"}, schema \in Schemas(d)}

\* The tool calls of an upstream message: none, one with well-formed
\* arguments, one with arguments that are not JSON.
UpstreamToolCalls ==
    { <<>>,
      << [id |-> "call1", function |-> [name |-> "search", arguments |-> <<"{", "in1", "}">>]] >>,
      << [id |-> "call1", function |-> [name |-> "search", arguments |-> <<"{", "in1">>]] >> }

\* The upstream JSON bodies of a 2xx response.
DataShapes ==
    { [NoData EXCEPT !.error = "upstream error"] }
      \cup { [error |-> "", id |-> id, usage |-> usage, finish_reason |-> reason,
              message |-> [role |-> "assistant", content |-> content, tool_calls |-> calls]] :
                id \in {Undefined, <<"chatcmpl", "-1">>},
                usage \in {NoUsage, [present |-> TRUE, prompt_tokens |-> 11, completion_tokens |-> 7]},
                content \in {Null, <<"hello", " ", "there">>},
                calls \in UpstreamToolCalls,
                reason \in {"stop", "tool_calls", "length"} }

(***************************************************************************)
(* The upstream body: lines the provider may send.                         *)
(***************************************************************************)
DataLine(dataStr) == <<"da", "ta:", " ">> \o dataStr \o <<"LF">>

UpstreamLines ==
    { DataLine(<<"{", "c:a", "}">>),
      DataLine(<<"{", "r:x", "}">>),
      DataLine(<<"{", "t0:a", "}">>),
      DataLine(<<"{", "t0:ab", "}">>),
      DataLine(<<"{", "t1:a", "}">>),
      DataLine(<<"{", "err", "}">>),
      DataLine(<<"{", "c:b">>),
      DataLine(<<"t0:a", "u", "}">>),
      DataLine(<<"[DONE]", "CR">>),
      <<"LF">> }

RECURSIVE concat(_)
concat(ss) == IF ss = <<>> THEN <<>> ELSE Head(ss) \o concat(Tail(ss))

\* Sequences of at most n upstream lines.
LineSeqs(n) == UNION {[1..k -> UpstreamLines] : k \in 0..n}

isPrefix(a, b) == Len(a) <= Len(b) /\ SubSeq(b, 1, Len(a)) = a

\* The ways the upstream can complete the line it is in the middle of.
Completions(partial) ==
    IF partial = <<>>
    THEN {<<>>}
    ELSE {SubSeq(l, Len(partial) + 1, Len(l)) : l \in {x \in UpstreamLines : isPrefix(partial, x)}}

\* The number of upstream lines begun in the text received so far.
linesBegun(text) ==
    LET lines == split(text)
    IN  Len(lines) - (IF lines[Len(lines)] = <<>> THEN 1 ELSE 0)

\* The chunks a read can deliver after `text`: the rest of the line under
\* way and newly begun lines, cut after any unit.
Chunks(text) ==
    LET partial == split(text)[Len(split(text))]
        room    == Min(MaxNewLines, MaxLines - linesBegun(text))
    IN  UNION { LET lead  == rest \o concat(SubSeq(new, 1, Len(new) - 1))
                    total == rest \o concat(new)
                IN  { SubSeq(total, 1, n) :
                        n \in (IF new = <<>> THEN 1 ELSE Len(lead) + 1)..Len(total) }
                : rest \in Completions(partial), new \in LineSeqs(room) }

(***************************************************************************)
(* Initial state and actions                                               *)
(***************************************************************************)
\* The statuses and bodies of a non-2xx upstream response.
ErrorStatuses == {429, 500}

ErrorBodies == {"quota", "overloaded"}

Init ==
    /\ pc = "request"
    /\ st = InitState
    /\ engine \in {"legacy", "modern"}
    /\ lastRead = "none"
    /\ result = "pending"
    /\ payload = StreamPayload
    /\ openaiPayload = NoPayload
    /\ data = NoData
    /\ response = NoResponse
    /\ reqs = <<>>

\* The 'close' or 'error' event of reply.raw (lines 69-75).  The handler is
\* suspended in an await whenever a listener runs.
Close ==
    /\ pc \in {"fetch", "errorText", "json", "reading"}
    /\ ~st.destroyed
    /\ st' = [st EXCEPT !.connectionClosed = TRUE, !.destroyed = TRUE]
    /\ UNCHANGED <<pc, engine, lastRead, result>>
    /\ UNCHANGED <<payload, openaiPayload, data, response, reqs>>

\* The handler is invoked: it registers the listeners, translates the
\* payload and calls fetch, where it suspends (lines 64-199).
Request ==
    /\ pc = "request"
    /\ pc' = "fetch"
    /\ st' = [st EXCEPT !.fetchCalls = @ + 1]
    /\ openaiPayload' = buildPayload(payload)
    /\ UNCHANGED <<engine, lastRead, result, payload, data, response, reqs>>

\* fetch resolves with a 2xx streaming response: the handler runs up to the
\* first reader.read() (lines 195-322).
FetchOk ==
    /\ pc = "fetch"
    /\ openaiPayload.stream
    /\ IF loopContinues(st)
       THEN /\ pc' = "reading"
            /\ UNCHANGED <<st, result>>
       ELSE /\ pc' = "returned"
            /\ st' = afterLoop(st)
            /\ result' = "undefined"
    /\ UNCHANGED <<engine, lastRead>>
    /\ UNCHANGED <<payload, openaiPayload, data, response, reqs>>

\* fetch resolves with a non-2xx response: the handler suspends in
\* openaiResponse.text() (lines 201-202).
FetchNotOk ==
    /\ pc = "fetch"
    /\ pc' = "errorText"
    /\ \E status \in ErrorStatuses, body \in ErrorBodies :
         st' = [st EXCEPT !.upstreamStatus = status, !.upstreamBody = body]
    /\ UNCHANGED <<engine, lastRead, result>>
    /\ UNCHANGED <<payload, openaiPayload, data, response, reqs>>

\* openaiResponse.text() resolves with the error body (lines 202-208).
ErrorText ==
    /\ pc = "errorText"
    /\ pc' = "returned"
    /\ LET r == notOkReply(st, st.upstreamStatus, st.upstreamBody)
       IN  st' = r.state /\ result' = r.result
    /\ lastRead' = "text"
    /\ UNCHANGED engine
    /\ UNCHANGED <<payload, openaiPayload, data, response, reqs>>

\* openaiResponse.text() rejects: the outer catch runs (lines 502-508).
ErrorTextFail ==
    /\ pc = "errorText"
    /\ pc' = "returned"
    /\ LET r == outerCatch(st, "text failed")
       IN  st' = r.state /\ result' = r.result
    /\ lastRead' = "error"
    /\ UNCHANGED engine
    /\ UNCHANGED <<payload, openaiPayload, data, response, reqs>>

\* fetch resolves with a 2xx response to a non-streaming request: the
\* handler suspends in openaiResponse.json() (lines 201-212).
FetchOkJson ==
    /\ pc = "fetch"
    /\ ~openaiPayload.stream
    /\ pc' = "json"
    /\ UNCHANGED <<st, engine, lastRead, result, payload, openaiPayload, data, response, reqs>>

\* The suffixes Math.random() can give a message id.
RandomIds == {"r1", "r2"}

\* openaiResponse.json() resolves: the handler returns the translated
\* message, or the outer catch runs on an exception (lines 212-261, 502-508).
JsonOk ==
    /\ pc = "json"
    /\ pc' = "returned"
    /\ \E d \in DataShapes :
         \E random \in (IF truthy(d.id) \/ d.error # "" THEN {"r1"} ELSE RandomIds) :
           LET t == translateResponse(d, openaiPayload.messages, openaiPayload.model, random)
               r == outerCatch(st, t.message)
           IN  /\ data' = d
               /\ IF t.thrown
                  THEN st' = r.state /\ result' = r.result /\ UNCHANGED response
                  ELSE response' = t.response /\ result' = "message" /\ UNCHANGED st
    /\ lastRead' = "json"
    /\ UNCHANGED <<engine, payload, openaiPayload, reqs>>

\* openaiResponse.json() rejects: the outer catch runs (lines 502-508).
JsonFail ==
    /\ pc = "json"
    /\ pc' = "returned"
    /\ LET r == outerCatch(st, "json failed")
       IN  st' = r.state /\ result' = r.result
    /\ lastRead' = "error"
    /\ UNCHANGED <<engine, payload, openaiPayload, data, response, reqs>>

\* fetch rejects: the outer catch runs (lines 502-508).
FetchFail ==
    /\ pc = "fetch"
    /\ pc' = "returned"
    /\ LET r == outerCatch(st, "fetch failed")
       IN  st' = r.state /\ result' = r.result
    /\ UNCHANGED <<engine, lastRead>>
    /\ UNCHANGED <<payload, openaiPayload, data, response, reqs>>

\* resume without the `return` of the [DONE] branch: the read loop goes on
\* after the stream was finalized.
resumeAfterDone(s) ==
    IF loopContinues(s)
    THEN /\ pc' = "reading"
         /\ st' = s
         /\ UNCHANGED result
    ELSE /\ pc' = "returned"
         /\ st' = afterLoop(s)
         /\ result' = "undefined"

\* The handler from the resolution of a reader.read() to its next
\* suspension or its return (lines 322-501).
resume(s) ==
    IF s.returned
    THEN /\ pc' = "returned"
         /\ st' = s
         /\ result' = "undefined"
    ELSE IF loopContinues(s)
    THEN /\ pc' = "reading"
         /\ st' = s
         /\ UNCHANGED result
    ELSE /\ pc' = "returned"
         /\ st' = afterLoop(s)
         /\ result' = "undefined"

\* reader.read() resolves with bytes.  writeHead is called only while
\* isSucceeded is unset, so only then can it throw.
ReadChunk ==
    /\ pc = "reading"
    /\ \E chunk \in Chunks(st.chunkLog),
          headThrows \in (IF st.isSucceeded THEN {FALSE} ELSE BOOLEAN) :
         resume(processChunk(st, chunk, headThrows, engine))
    /\ lastRead' = "chunk"
    /\ UNCHANGED engine
    /\ UNCHANGED <<payload, openaiPayload, data, response, reqs>>

\* reader.read() resolves with done: true.
ReadDone ==
    /\ pc = "reading"
    /\ resume(processChunk([st EXCEPT !.done = TRUE], <<>>, FALSE, engine))
    /\ lastRead' = "done"
    /\ UNCHANGED engine
    /\ UNCHANGED <<payload, openaiPayload, data, response, reqs>>

\* reader.read() rejects: the outer catch runs (lines 502-508).
ReadFail ==
    /\ pc = "reading"
    /\ pc' = "returned"
    /\ LET r == outerCatch(st, "read failed")
       IN  st' = r.state /\ result' = r.result
    /\ lastRead' = "error"
    /\ UNCHANGED engine
    /\ UNCHANGED <<payload, openaiPayload, data, response, reqs>>

Next ==
    \/ Request
    \/ Close
    \/ FetchOk
    \/ FetchNotOk
    \/ ErrorText
    \/ ErrorTextFail
    \/ FetchFail
    \/ ReadChunk
    \/ ReadDone
    \/ ReadFail

Spec == Init /\ [][Next]_vars

\* A non-streaming request (payload.stream is not true).
NonStreamInit ==
    /\ pc = "request"
    /\ st = InitState
    /\ engine = "modern"
    /\ lastRead = "none"
    /\ result = "pending"
    /\ payload \in NonStreamPayloads(MaxMessages)
    /\ openaiPayload = NoPayload
    /\ data = NoData
    /\ response = NoResponse
    /\ reqs = <<>>

NonStreamNext ==
    \/ Request
    \/ Close
    \/ FetchOkJson
    \/ JsonOk
    \/ JsonFail
    \/ FetchNotOk
    \/ ErrorText
    \/ ErrorTextFail
    \/ FetchFail

NonStreamSpec == NonStreamInit /\ [][NonStreamNext]_vars

(***************************************************************************)
(* Two requests served at once                                             *)
(***************************************************************************)
\* A handler invocation before it starts.
InitRequest == [pc |-> "request", st |-> InitState, lastRead |-> "none", result |-> "pending"]

\* The invocation after a read settled as `how` and the handler ran on to its
\* next suspension or its return (lines 322-501).
resumed(r, s, how) ==
    IF s.returned
    THEN [pc |-> "returned", st |-> s, lastRead |-> how, result |-> "undefined"]
    ELSE IF loopContinues(s)
    THEN [pc |-> "reading", st |-> s, lastRead |-> how, result |-> r.result]
    ELSE [pc |-> "returned", st |-> afterLoop(s), lastRead |-> how, result |-> "undefined"]

\* The invocation after the outer catch ran (lines 502-508).
caught(r, message, how) ==
    LET c == outerCatch(r.st, message)
    IN  [pc |-> "returned", st |-> c.state, lastRead |-> how, result |-> c.result]

\* The lines of the upstream bodies, and the chunks a read can deliver after
\* `text`: one whole line.
PairLines ==
    { DataLine(<<"{", "c:a", "}">>),
      DataLine(<<"{", "t0:a", "}">>),
      DataLine(<<"[DONE]", "CR">>) }

PairChunks(text) == IF linesBegun(text) < MaxPairLines THEN PairLines ELSE {}

\* The steps one invocation can take from r, each from a suspension point (or
\* its start) to the next: the steps of Next, as a function of the
\* invocation's own state and the runtime.
HandlerSteps(r, eng) ==
    (IF r.pc = "request"
     THEN {[r EXCEPT !.pc = "fetch", !.st.fetchCalls = @ + 1]}
     ELSE {})
    \cup
    (IF r.pc \in {"fetch", "errorText", "json", "reading"} /\ ~r.st.destroyed
     THEN {[r EXCEPT !.st.connectionClosed = TRUE, !.st.destroyed = TRUE]}
     ELSE {})
    \cup
    (IF r.pc = "fetch"
     THEN {IF loopContinues(r.st)
           THEN [r EXCEPT !.pc = "reading"]
           ELSE [r EXCEPT !.pc = "returned", !.st = afterLoop(r.st), !.result = "undefined"]}
          \cup {[r EXCEPT !.pc = "errorText",
                          !.st.upstreamStatus = status,
                          !.st.upstreamBody = body] :
                  status \in ErrorStatuses, body \in ErrorBodies}
          \cup {caught(r, "fetch failed", r.lastRead)}
     ELSE {})
    \cup
    (IF r.pc = "errorText"
     THEN {LET n == notOkReply(r.st, r.st.upstreamStatus, r.st.upstreamBody)
           IN  [pc |-> "returned", st |-> n.state, lastRead |-> "text", result |-> n.result]}
          \cup {caught(r, "text failed", "error")}
     ELSE {})
    \cup
    (IF r.pc = "reading"
     THEN {resumed(r, processChunk(r.st, chunk, headThrows, eng), "chunk") :
              chunk \in PairChunks(r.st.chunkLog),
              headThrows \in (IF r.st.isSucceeded THEN {FALSE} ELSE BOOLEAN)}
          \cup {resumed(r, processChunk([r.st EXCEPT !.done = TRUE], <<>>, FALSE, eng), "done")}
          \cup {caught(r, "read failed", "error")}
     ELSE {})

\* The handler's locals belong to the invocation: `let` declarations inside
\* the handler (lines 65-66, 264, 275, 309-319); at module level there are
\* only config and fastify (lines 6-7).
localsShared(rs, k) == rs[1].st

locals(rs, k) == rs[k].st

PairInit ==
    /\ pc = "request"
    /\ st = InitState
    /\ engine \in {"legacy", "modern"}
    /\ lastRead = "none"
    /\ result = "pending"
    /\ payload = StreamPayload
    /\ openaiPayload = NoPayload
    /\ data = NoData
    /\ response = NoResponse
    /\ reqs = <<InitRequest, InitRequest>>

\* One of the two invocations takes a step.
Step ==
    /\ \E k \in 1..2 :
         \E n \in HandlerSteps([reqs[k] EXCEPT !.st = locals(reqs, k)], engine) :
           reqs' = [reqs EXCEPT ![k] = n]
    /\ UNCHANGED <<pc, st, engine, lastRead, result, payload, openaiPayload, data, response>>

PairSpec == PairInit /\ [][Step]_vars

\* The translation of a request that declares a tool.
ToolsInit ==
    /\ pc = "request"
    /\ st = InitState
    /\ engine = "modern"
    /\ lastRead = "none"
    /\ result = "pending"
    /\ payload \in ToolPayloads(MaxDepth)
    /\ openaiPayload = NoPayload
    /\ data = NoData
    /\ response = NoResponse
    /\ reqs = <<>>

ToolsSpec == ToolsInit /\ [][Request]_vars

(***************************************************************************)
(* Observations used to state the properties                               *)
(***************************************************************************)
ToolIndexes == {0, 1}

RECURSIVE toolCallsOf(_)
\* The delta.tool_calls entries of the parsed frames that reached the delta
\* dispatch (a frame with an error member throws before it), in order.
toolCallsOf(log) ==
    IF log = <<>> THEN <<>>
    ELSE toolCallsOf(SubSeq(log, 1, Len(log) - 1))
           \o (IF log[Len(log)].error = "" THEN log[Len(log)].tool_calls ELSE <<>>)

\* The cumulative argument strings received for tool-call index i, in order.
ArgsSeen(i) ==
    LET at(tc) == tc.index = i
        calls  == SelectSeq(toolCallsOf(st.parsedLog), at)
    IN  [k \in 1..Len(calls) |-> calls[k].arguments]

\* Each string extends the one before it.
PrefixChain(ss) == \A k \in 1..(Len(ss) - 1) : isPrefix(ss[k], ss[k + 1])

\* The input_json_delta events written for index i, in order.
JsonDeltas(i) ==
    LET at(e) == e.type = "content_block_delta" /\ e.kind = "input_json_delta" /\ e.index = i
    IN  SelectSeq(st.events, at)

\* The number of events of a type, and of a type and index, written.
CountType(type) == Cardinality({k \in 1..Len(st.events) : st.events[k].type = type})

CountAt(type, i) ==
    Cardinality({k \in 1..Len(st.events) :
                   st.events[k].type = type /\ st.events[k].index = i})

(***************************************************************************)
(* C1: with the connection open, if the cumulative argument strings        *)
(* received for a tool-call index each extend the previous one, the        *)
(* partial_json fragments emitted for that index, concatenated in          *)
(* emission order, equal the last string received, and so does             *)
(* toolCallAccumulators[index].                                            *)
(***************************************************************************)
C1_SuffixProperty ==
    \A i \in ToolIndexes :
        (~st.connectionClosed /\ ArgsSeen(i) # <<>> /\ PrefixChain(ArgsSeen(i)))
        => LET last == ArgsSeen(i)[Len(ArgsSeen(i))]
               frag == [k \in 1..Len(JsonDeltas(i)) |-> JsonDeltas(i)[k].text]
           IN  /\ concat(frag) = last
               /\ i \in DOMAIN st.toolCallAccumulators
               /\ st.toolCallAccumulators[i] = last

\* Index 0 received "a", then "ab": two fragments were emitted.
C1_Witness ==
    /\ ~st.connectionClosed
    /\ ArgsSeen(0) = << <<"a">>, <<"a", "b">> >>
    /\ Len(JsonDeltas(0)) = 2

\* The complete lines of the text received so far.
LinesSeen == SubSeq(split(st.chunkLog), 1, Len(split(st.chunkLog)) - 1)

\* A complete line `data: [DONE]` has been received.
DoneLineSeen ==
    \E k \in 1..Len(LinesSeen) :
        /\ startsWithData(trim(LinesSeen[k]))
        /\ stripData(trim(LinesSeen[k])) = <<"[DONE]">>

\* The stream was finalized: message_delta, then message_stop, were the last
\* events written, the response was ended and the handler has returned.
Finalized ==
    /\ Len(st.events) >= 2
    /\ st.events[Len(st.events) - 1].type = "message_delta"
    /\ st.events[Len(st.events)].type = "message_stop"
    /\ st.writableEnded
    /\ pc = "returned"

(***************************************************************************)
(* C2: a `data: [DONE]` line is terminal in every stream state: once one   *)
(* has been processed with the connection open, message_delta and          *)
(* message_stop have been emitted, the response is ended and no further    *)
(* line is processed.                                                      *)
(***************************************************************************)
C2_DoneAlwaysTerminal ==
    (~st.connectionClosed /\ DoneLineSeen) => Finalized

(***************************************************************************)
(* C3: a parsed frame that carries an `error` member aborts processing:    *)
(* no later frame is parsed, the handler returns, and when nothing had     *)
(* been sent the client gets the error reply.                              *)
(***************************************************************************)
C3_ErrorFrameAborts ==
    \A k \in 1..Len(st.parsedLog) :
        st.parsedLog[k].error # ""
        => /\ k = Len(st.parsedLog)
           /\ pc = "returned"
           /\ (st.events = <<>> => result = "500")

(***************************************************************************)
(* C4: once connectionClosed is set, by a close or error event or by a     *)
(* failed header write, no later step writes an SSE event, writes the      *)
(* header or ends the response, and the handler returns without an error   *)
(* reply; a failed header write itself is followed by no write.            *)
(***************************************************************************)
C4_NoWriteAfterClose ==
    [][ /\ st.connectionClosed
           => /\ st'.events = st.events
              /\ st'.endCalls = st.endCalls
              /\ st'.writeHeadCalls = st.writeHeadCalls
              /\ result' \in {"pending", "undefined"}
        /\ (~st.connectionClosed /\ st'.connectionClosed /\ ~st'.destroyed)
           => /\ st'.events = st.events
              /\ st'.endCalls = st.endCalls ]_vars

\* The connection closed after message_start and before [DONE]; a further
\* chunk then arrived and the handler returned.
C4_Witness ==
    /\ pc = "returned"
    /\ st.destroyed
    /\ lastRead = "chunk"
    /\ CountType("message_start") = 1
    /\ CountType("message_stop") = 0
    /\ st.endCalls = 0
    /\ result = "undefined"

(***************************************************************************)
(* C5: with the connection open, the events written after the upstream     *)
(* text arrived in any number of reads, cut anywhere, are the events       *)
(* written when the same text arrives in one read.                         *)
(***************************************************************************)
C5_SplitIndependent ==
    ~st.connectionClosed
    => st.events = processChunk(InitState, st.chunkLog, FALSE, engine).events

\* A read ended in the middle of a JSON object, after an earlier frame was
\* translated.
C5_Witness ==
    /\ ~st.connectionClosed
    /\ pc = "reading"
    /\ st.buffer = <<"da", "ta:", " ", "{", "c:a">>
    /\ CountType("content_block_delta") >= 1

\* The tool-call indexes received.
IndexesSeen ==
    {toolCallsOf(st.parsedLog)[k].index : k \in 1..Len(toolCallsOf(st.parsedLog))}

(***************************************************************************)
(* C6: when [DONE] is processed with the connection open after tool-call   *)
(* deltas and no text block, exactly one content_block_stop is written for *)
(* each tool-call index received and none for any other index.             *)
(***************************************************************************)
C6_TerminalStops ==
    (st.returned /\ ~st.connectionClosed /\ ~st.textBlockStarted)
    => \A i \in ToolIndexes :
         CountAt("content_block_stop", i) = (IF i \in IndexesSeen THEN 1 ELSE 0)

\* Tool-call deltas for indexes 0 and 1, then [DONE].
C6_Witness ==
    /\ st.returned
    /\ ~st.connectionClosed
    /\ ~st.textBlockStarted
    /\ IndexesSeen = {0, 1}
    /\ CountType("content_block_stop") = 2

\* Only index 1 was used: no stop for index 0.
C6_WitnessNoStray ==
    /\ st.returned
    /\ ~st.connectionClosed
    /\ IndexesSeen = {1}
    /\ CountAt("content_block_stop", 0) = 0

(***************************************************************************)
(* C7: the header block is written at most once per request: writeHead is  *)
(* called at most once and at most one message_start and one ping are      *)
(* written.                                                                *)
(***************************************************************************)
C7_HeaderOnce ==
    /\ st.writeHeadCalls <= 1
    /\ CountType("message_start") <= 1
    /\ CountType("ping") <= 1

\* Three frames were parsed and the header block was written once.
C7_Witness ==
    /\ Len(st.parsedLog) = MaxLines
    /\ st.writeHeadCalls = 1
    /\ CountType("message_start") = 1

(***************************************************************************)
(* C8: an error reply (a status and an {error} body) is produced only when *)
(* nothing was written downstream: no header and no event.                 *)
(***************************************************************************)
C8_ErrorOnlyBeforeBytes ==
    result \in {"500", "upstream status"}
    => /\ st.events = <<>>
       /\ st.writeHeadCalls = 0

\* A read failed after events were written: the failure was absorbed.
C8_Witness ==
    /\ pc = "returned"
    /\ lastRead = "error"
    /\ st.events # <<>>
    /\ result = "undefined"

(***************************************************************************)
(* C9: when reading the upstream body fails after streaming has begun and  *)
(* the connection is open, the handler ends the response (reply.raw.end is *)
(* called) without a message_stop event.                                   *)
(***************************************************************************)
C9_FailureEndsResponse ==
    (pc = "returned" /\ lastRead = "error" /\ st.hasStartedStreaming
       /\ ~st.connectionClosed)
    => /\ st.endCalls = 1
       /\ CountType("message_stop") = 0

(***************************************************************************)
(* C10: the read loop ends at end-of-body or once the connection has       *)
(* closed: if every read settles the handler returns, and once             *)
(* connectionClosed is set the read in flight is the last one and its      *)
(* bytes are not processed.                                                *)
(***************************************************************************)
\* Every read settles and the upstream body is finite: a read eventually
\* settles with done: true or with an error.
ReadEnds == ReadDone \/ ReadFail

FairSpec == Spec /\ WF_vars(ReadEnds)

C10_LoopExits ==
    /\ (pc = "reading") ~> (pc = "returned")
    /\ [][ (st.connectionClosed /\ pc = "reading")
           => /\ pc' = "returned"
              /\ st'.chunkLog = st.chunkLog
              /\ st'.buffer = st.buffer
              /\ st'.parsedLog = st.parsedLog ]_vars

\* The connection closed during the first read; the read then delivered a
\* chunk, which was dropped, and the handler returned.
C10_Witness ==
    /\ pc = "returned"
    /\ st.destroyed
    /\ lastRead = "chunk"
    /\ st.chunkLog = <<>>

(***************************************************************************)
(* C11: fetch is called exactly once per request, and when the upstream    *)
(* answered with a non-2xx status, its body was read and the connection is *)
(* open, the handler returns one error reply with the upstream status and  *)
(* body and writes nothing else downstream.                                *)
(***************************************************************************)
C11_UpstreamErrorOnce ==
    /\ st.fetchCalls = (IF pc = "request" THEN 0 ELSE 1)
    /\ (pc = "returned" /\ lastRead = "text" /\ ~st.connectionClosed)
       => /\ result = "upstream status"
          /\ st.replyCode = st.upstreamStatus
          /\ st.replyBody = st.upstreamBody
          /\ st.events = <<>>
          /\ st.writeHeadCalls = 0
          /\ st.endCalls = 0

\* The upstream answered 429 "quota" and the client got that reply.
C11_Witness ==
    /\ pc = "returned"
    /\ lastRead = "text"
    /\ st.fetchCalls = 1
    /\ st.replyCode = 429
    /\ st.replyBody = "quota"

RECURSIVE toolResultsOf(_)
\* The tool_result blocks of a list of inbound messages, in order.
toolResultsOf(msgs) ==
    IF msgs = <<>> THEN <<>>
    ELSE LET last == msgs[Len(msgs)]
             isToolResult(item) == item.type = "tool_result"
         IN  toolResultsOf(SubSeq(msgs, 1, Len(msgs) - 1))
               \o (IF last.content.kind = "array"
                   THEN SelectSeq(last.content.items, isToolResult)
                   ELSE <<>>)

(***************************************************************************)
(* C12: in the outbound message list, the `role: tool` messages are the    *)
(* tool_result blocks of the inbound messages, in order, each with the     *)
(* block's tool_use_id as tool_call_id and its text or content as content; *)
(* each comes after the entry of its originating message and before the    *)
(* entries of later messages; and no other outbound message has a          *)
(* tool_result's text in its content string.                               *)
(***************************************************************************)
C12_ToolResultsSeparate ==
    pc # "request"
    => LET out     == openaiPayload.messages
           results == toolResultsOf(payload.messages)
           isTool(m) == m.role = "tool"
           tools   == SelectSeq(out, isTool)
       IN  /\ Len(tools) = Len(results)
           /\ \A k \in 1..Len(tools) :
                /\ tools[k].tool_call_id = results[k].tool_use_id
                /\ tools[k].content = orElse(results[k].text, results[k].content)
           /\ \A p \in 1..Len(out), j \in 1..Len(payload.messages) :
                (out[p].role = "tool" /\ out[p].tool_call_id = ToolIds[j])
                => \A q \in 1..Len(out) :
                     /\ out[q].role = Roles[j] => q < p
                     /\ (\E i \in (j + 1)..Len(payload.messages) : out[q].role = Roles[i])
                          => q > p
           /\ \A p \in 1..Len(out) :
                out[p].role # "tool"
                => \A i \in 1..Len(out[p].content) : out[p].content[i] \notin ResultWords

RECURSIVE hasUri(_)
\* The schema has a node with type 'string' and format 'uri' at some level.
hasUri(schema) ==
    \/ schema.type = "string" /\ schema.format = "uri"
    \/ \E key \in {"properties", "items", "additionalProperties", "anyOf"} :
         \E k \in 1..Len(schema[key]) : hasUri(schema[key][k])

(***************************************************************************)
(* C13: the parameters of every outbound tool are a fixed point of         *)
(* removeUriFormat (sanitizing twice equals sanitizing once) and have no   *)
(* node with type 'string' and format 'uri' at any nesting level.          *)
(***************************************************************************)
C13_SanitizeIdempotentComplete ==
    pc # "request"
    => \A k \in 1..Len(openaiPayload.tools) :
         LET parameters == openaiPayload.tools[k].function.parameters
         IN  /\ removeUriFormat(parameters) = parameters
             /\ ~hasUri(parameters)

(***************************************************************************)
(* C14: when the upstream JSON body of a non-streaming request has no      *)
(* error member, its tool-call arguments are JSON and the connection is    *)
(* open, the handler returns the translated message, whose usage is the    *)
(* upstream usage when the body has one.                                   *)
(***************************************************************************)
C14_UsageNeverFails ==
    (/\ pc = "returned"
     /\ lastRead = "json"
     /\ data.error = ""
     /\ \A k \in 1..Len(data.message.tool_calls) :
          JSONparseArguments(data.message.tool_calls[k].function.arguments).ok
     /\ ~st.connectionClosed)
    => /\ result = "message"
       /\ data.usage.present
          => /\ response.usage.input_tokens = data.usage.prompt_tokens
             /\ response.usage.output_tokens = data.usage.completion_tokens

RECURSIVE soloClosure(_, _, _)
\* The states reachable from `frontier` by the steps of one invocation.
soloClosure(eng, seen, frontier) ==
    IF frontier = {} THEN seen
    ELSE LET next == UNION {HandlerSteps(r, eng) : r \in frontier}
         IN  soloClosure(eng, seen \cup next, next \ seen)

\* The states of a request that is processed alone, for each runtime: its
\* position, its locals (with the text received and the events written) and
\* what it returned.
SoloStates ==
    [eng \in {"legacy", "modern"} |-> soloClosure(eng, {InitRequest}, {InitRequest})]

BodyEvents ==
    {"content_block_start", "content_block_delta", "content_block_stop",
     "message_delta", "message_stop"}

(***************************************************************************)
(* C16: every content_block_start, content_block_delta,                    *)
(* content_block_stop, message_delta and message_stop event written        *)
(* downstream comes after the response header, a message_start event and   *)
(* a ping, for every upstream body.                                        *)
(***************************************************************************)
C16_HeaderBeforeBlocks ==
    \A k \in 1..Len(st.events) :
        st.events[k].type \in BodyEvents
        => /\ st.writeHeadCalls = 1
           /\ k > 2
           /\ st.events[1].type = "message_start"
           /\ st.events[2].type = "ping"

\* A content_block_start of the given block type was written.
BlockStarted(kind) ==
    \E k \in 1..Len(st.events) :
        st.events[k].type = "content_block_start" /\ st.events[k].kind = kind

(***************************************************************************)
(* C17: in no reachable state is textBlockStarted set while                *)
(* toolCallAccumulators has an entry, and no stream has both a text and a  *)
(* tool_use content_block_start.                                           *)
(***************************************************************************)
C17_TextToolExclusive ==
    /\ ~(st.textBlockStarted /\ DOMAIN st.toolCallAccumulators # {})
    /\ ~(BlockStarted("text") /\ BlockStarted("tool_use"))

\* The non-empty content increments of the parsed frames that reached the
\* delta dispatch, in order.
ContentsSeen ==
    LET carries(parsed) == parsed.error = "" /\ parsed.content # <<>>
        frames == SelectSeq(st.parsedLog, carries)
    IN  [k \in 1..Len(frames) |-> frames[k].content]

\* The texts of the text_delta events written, in order.
TextDeltas ==
    LET isTextDelta(e) == e.type = "content_block_delta" /\ e.kind = "text_delta"
        deltas == SelectSeq(st.events, isTextDelta)
    IN  [k \in 1..Len(deltas) |-> deltas[k].text]

(***************************************************************************)
(* C18: with the connection open, the text_delta events written are the    *)
(* non-empty content increments of the frames received, one per frame and  *)
(* in order, and their concatenation is accumulatedContent.                *)
(***************************************************************************)
C18_EveryContentEmitted ==
    ~st.connectionClosed
    => /\ TextDeltas = ContentsSeen
       /\ concat(ContentsSeen) = st.accumulatedContent

\* The tool-call deltas a frame can carry, and those with no arguments.
ToolCallDeltas ==
    {toolCallOf(u) : u \in ToolUnits}
      \cup {[index |-> i, arguments |-> <<>>] : i \in ToolIndexes}

\* The length of the longest of the first k strings of ss.
Longest(ss, k) ==
    IF k = 0 THEN 0
    ELSE CHOOSE n \in {Len(ss[j]) : j \in 1..k} : \A j \in 1..k : Len(ss[j]) <= n

(***************************************************************************)
(* C19: a tool-call delta for an index already opened whose argument       *)
(* string is not longer than the accumulator of that index leaves the      *)
(* whole stream state as it is: no event, the same accumulators; and with  *)
(* the connection open the input_json_delta events of an index are as many *)
(* as the argument strings received that were longer than all before.      *)
(***************************************************************************)
C19_NonExtendingIgnored ==
    /\ \A toolCall \in ToolCallDeltas :
         (/\ toolCall.index \in DOMAIN st.toolCallAccumulators
          /\ Len(toolCall.arguments) <= Len(st.toolCallAccumulators[toolCall.index]))
         => toolCallStep(st, toolCall) = st
    /\ ~st.connectionClosed
       => \A i \in ToolIndexes :
            Len(JsonDeltas(i))
              = Cardinality({k \in 1..Len(ArgsSeen(i)) :
                               Len(ArgsSeen(i)[k]) > Longest(ArgsSeen(i), k - 1)})

\* Index 0 received "ab", then the shorter "a": one fragment was emitted and
\* the accumulator kept "ab".
C19_Witness ==
    /\ ~st.connectionClosed
    /\ ArgsSeen(0) = << <<"a", "b">>, <<"a">> >>
    /\ Len(JsonDeltas(0)) = 1
    /\ st.toolCallAccumulators[0] = <<"a", "b">>

(***************************************************************************)
(* C20: once [DONE] has been processed with the connection open, exactly   *)
(* one message_delta has been written, directly before message_stop, the   *)
(* last event; its stop_reason is tool_use if a tool-call delta was        *)
(* processed before and end_turn otherwise.  Before [DONE] is processed no *)
(* message_delta is written.                                               *)
(***************************************************************************)
C20_StopReason ==
    /\ (st.returned /\ ~st.connectionClosed)
       => /\ CountType("message_delta") = 1
          /\ CountType("message_stop") = 1
          /\ st.events[Len(st.events) - 1].type = "message_delta"
          /\ st.events[Len(st.events)].type = "message_stop"
          /\ st.events[Len(st.events) - 1].kind
               = (IF toolCallsOf(st.parsedLog) # <<>> THEN "tool_use" ELSE "end_turn")
    /\ ~st.returned => CountType("message_delta") = 0

\* A text delta, then a tool-call delta, then [DONE]: stop_reason tool_use.
C20_Witness ==
    /\ st.returned
    /\ ~st.connectionClosed
    /\ ContentsSeen # <<>>
    /\ toolCallsOf(st.parsedLog) # <<>>
    /\ st.events[Len(st.events) - 1].kind = "tool_use"

\* The upstream lines without their terminator, as `for (const line of
\* lines)` sees them.
LinesOffered == {SubSeq(l, 1, Len(l) - 1) : l \in UpstreamLines}

\* The data string the loop would build from `line` in the current state,
\* and whether it is a data line whose string JSON.parse rejects.
dataStrOf(line) == st.incompleteDataLine \o stripData(trim(line))

FailsParsing(line) ==
    /\ trim(line) # <<>>
    /\ startsWithData(trim(line))
    /\ dataStrOf(line) # <<"[DONE]">>
    /\ ~JSONparse(dataStrOf(line), engine).ok

(***************************************************************************)
(* C21: a data line that fails JSON parsing is not fatal.  While the       *)
(* handler is in the read loop with the connection open, processing such a *)
(* line changes nothing but incompleteDataLine, which becomes the data     *)
(* string (held, and prefixed to the next data line) or empty (skipped):   *)
(* no event, no end of the response, no error status, no return, so the    *)
(* loop goes on to the next line; every complete line received has been    *)
(* taken from the buffer.  A handler that returned while processing a      *)
(* chunk with the connection open did so at [DONE], and no chunk leads to  *)
(* an error reply.                                                         *)
(***************************************************************************)
C21_ParseFailureNotFatal ==
    /\ (pc = "reading" /\ ~st.connectionClosed)
       => /\ \A line \in LinesOffered :
               FailsParsing(line)
               => LET cleared == [st EXCEPT !.incompleteDataLine = <<>>]
                      held    == [st EXCEPT !.incompleteDataLine = dataStrOf(line)]
                      after   == lineStep(st, line, FALSE, engine)
                  IN  after \in {cleared, held}
          /\ st.buffer = split(st.chunkLog)[Len(split(st.chunkLog))]
    /\ (pc = "returned" /\ lastRead = "chunk" /\ ~st.connectionClosed) => st.returned
    /\ lastRead = "chunk" => (st.replyCode = 0 /\ result \in {"pending", "undefined"})

\* The first line received failed to parse and was skipped; a later frame
\* was parsed and translated, and the handler is still reading.
C21_Witness ==
    /\ pc = "reading"
    /\ ~st.connectionClosed
    /\ Len(LinesSeen) >= 2
    /\ LinesSeen[1] = <<"da", "ta:", " ", "t0:a", "u", "}">>
    /\ Len(st.parsedLog) >= 1
    /\ CountType("content_block_delta") >= 1

\* A line was held in incompleteDataLine after an earlier frame was
\* translated.
C21_WitnessHeld ==
    /\ pc = "reading"
    /\ ~st.connectionClosed
    /\ st.incompleteDataLine = <<"{", "c:b">>
    /\ CountType("content_block_delta") >= 1

\* The number of events of a type and index among the first n written.
CountAtUpTo(type, i, n) ==
    Cardinality({k \in 1..n : st.events[k].type = type /\ st.events[k].index = i})

\* The blocks of index i open after the first n events.
OpenBlocks(i, n) ==
    CountAtUpTo("content_block_start", i, n) - CountAtUpTo("content_block_stop", i, n)

(***************************************************************************)
(* C22: blocks are balanced.  After any number of events at most one block *)
(* of an index is open and no block is stopped that was not started; and   *)
(* once message_stop has been written, every content_block_start written   *)
(* before it has its content_block_stop of the same index before it: no    *)
(* block is open at message_stop.                                          *)
(***************************************************************************)
C22_BlockBalance ==
    \A i \in ToolIndexes :
        /\ \A n \in 0..Len(st.events) : OpenBlocks(i, n) \in {0, 1}
        /\ \A n \in 1..Len(st.events) :
             st.events[n].type = "message_stop" => OpenBlocks(i, n) = 0

\* The upstream body ended (a read resolved with done: true) and the handler
\* returned with the connection open.
BodyEnded == pc = "returned" /\ lastRead = "done" /\ ~st.connectionClosed

\* The text received ends with a `data: [DONE]` line that has no terminator.
TrailingDone ==
    LET last == trim(split(st.chunkLog)[Len(split(st.chunkLog))])
    IN  startsWithData(last) /\ stripData(last) = <<"[DONE]">>

(***************************************************************************)
(* C23: no trailing frame is lost.  When the upstream body has ended with  *)
(* the connection open, the events written are those of processing every   *)
(* line received, the last line included even when no newline follows it;  *)
(* a trailing `data: [DONE]` without terminator, reached with nothing held *)
(* in incompleteDataLine, has given message_delta and message_stop.        *)
(***************************************************************************)
C23_NoLostTrailingFrame ==
    BodyEnded
    => /\ st.events
            = processChunk(InitState, st.chunkLog \o <<"LF">>, FALSE, engine).events
       /\ (TrailingDone /\ st.incompleteDataLine = <<>>)
          => /\ CountType("message_delta") = 1
             /\ CountType("message_stop") = 1

(***************************************************************************)
(* C24: the streaming path terminates once.  message_stop is written at    *)
(* most once and reply.raw.end() is called at most once; a message_stop is *)
(* the last event written and the response was ended after it; and once    *)
(* message_stop was written or reply.raw.end() was called, no step writes  *)
(* an event or calls reply.raw.end() again.                                *)
(***************************************************************************)
C24_SingleTermination ==
    /\ [](/\ CountType("message_stop") <= 1
          /\ st.endCalls <= 1
          /\ \A k \in 1..Len(st.events) :
               st.events[k].type = "message_stop"
               => (k = Len(st.events) /\ st.endCalls = 1))
    /\ [][ (st.endCalls >= 1 \/ CountType("message_stop") >= 1)
           => /\ st'.events = st.events
              /\ st'.endCalls = st.endCalls ]_vars

\* [DONE] was processed and another complete line arrived after it in the
\* same read: the stream was terminated once and nothing followed.
C24_Witness ==
    /\ st.returned
    /\ ~st.connectionClosed
    /\ CountType("message_stop") = 1
    /\ st.endCalls = 1
    /\ \E k \in 1..(Len(LinesSeen) - 1) :
         /\ startsWithData(trim(LinesSeen[k]))
         /\ stripData(trim(LinesSeen[k])) = <<"[DONE]">>

====
